---------------------------- MODULE Spec2Model ----------------------------
(***************************************************************************)
(* A model of oproperty (src/oproperty.py): a property-like descriptor     *)
(* that lets a derived class override one accessor of an attribute of a    *)
(* base class and still call the next implementation found further up the  *)
(* method resolution order (MRO) of the object.                            *)
(*                                                                         *)
(* The state is the set of descriptor objects (their fget/fset/fdel slots, *)
(* _prop_name and __class_type), the member dictionaries of the classes,   *)
(* the stored value of each object, and a record of the last operation.    *)
(* Each method of the class and the decorator is one action; an attribute  *)
(* access (get, set, delete) is one action that runs the whole chain of    *)
(* handlers and base accessors it triggers.                                *)
(***************************************************************************)
EXTENDS Integers, Sequences, FiniteSets, TLC

VARIABLES
    descs,      \* descriptor id -> the oproperty object's fields
    cdict,      \* class -> attribute name -> member (klass.__dict__)
    val,        \* object -> its stored value (self.val of tests.py)
    last        \* what the last operation did (its outcome and call trace)

vars == <<descs, cdict, val, last>>

(***************************************************************************)
(* The universe: the classes of src/tests.py, their linearizations, and    *)
(* one metaclass pair so that an object that is itself a class exists.     *)
(***************************************************************************)
None == "None"

\* Attribute names used by the tests.
Names == {"prop", "prop1", "prop2", "readonly"}

\* The classes.  "C" is a class whose metaclass is "Meta".
Classes ==
    {"object", "type", "BaseClass", "BaseClass1", "BaseClass2", "MyMixin",
     "MixedIn1", "MixedIn2", "Derived1", "Derived2", "MetaBase", "Meta", "C"}

\* klass.__mro__ : the C3 linearization of each class, as Python computes it.
Mro ==
    [k \in Classes |->
        CASE k = "object"     -> <<"object">>
          [] k = "type"       -> <<"type", "object">>
          [] k = "BaseClass"  -> <<"BaseClass", "object">>
          [] k = "BaseClass1" -> <<"BaseClass1", "object">>
          [] k = "BaseClass2" -> <<"BaseClass2", "object">>
          [] k = "MyMixin"    -> <<"MyMixin", "object">>
          [] k = "MixedIn1"   -> <<"MixedIn1", "MyMixin", "BaseClass1", "object">>
          [] k = "MixedIn2"   -> <<"MixedIn2", "MyMixin", "BaseClass2", "object">>
          [] k = "Derived1"   -> <<"Derived1", "BaseClass", "object">>
          [] k = "Derived2"   -> <<"Derived2", "Derived1", "BaseClass", "object">>
          [] k = "MetaBase"   -> <<"MetaBase", "type", "object">>
          [] k = "Meta"       -> <<"Meta", "MetaBase", "type", "object">>
          [] k = "C"          -> <<"C", "object">>]

\* The objects attribute access is performed on: plain instances, and the
\* class object "C" (an instance of its metaclass).
Instances == {"b", "d1", "d2", "m1", "m2"}
Objects == Instances \cup {"C"}

\* type(obj)
TypeOf ==
    [o \in Objects |->
        CASE o = "b"  -> "BaseClass"
          [] o = "d1" -> "Derived1"
          [] o = "d2" -> "Derived2"
          [] o = "m1" -> "MixedIn1"
          [] o = "m2" -> "MixedIn2"
          [] o = "C"  -> "Meta"]

\* isinstance(obj, type)
IsType(o) == o \in Classes

(***************************************************************************)
(* Members of a class dictionary.  kind "none": the name is not in the     *)
(* dictionary; "property": a builtin property, id names its accessors;     *)
(* "oproperty": an override descriptor, id is the descriptor.              *)
(***************************************************************************)
NoMember == [kind |-> "none", id |-> None]
Property(p) == [kind |-> "property", id |-> p]
OProperty(d) == [kind |-> "oproperty", id |-> d]

\* The builtin properties of the test classes: which accessors each has.
\* "rw": BaseClass.prop, getter/setter/deleter over self.val.
\* "c123", "c456": getter-only properties returning a constant.
PropertyIds == {"rw", "c123", "c456"}
BaseInitVal == 123
Const123 == 123
Const456 == 456

\* The value the class body of each class stores under each name.
BodyDict(k, n) ==
    CASE k = "BaseClass"  /\ n = "prop"  -> Property("rw")
      [] k = "BaseClass"  /\ n = "prop1" -> Property("c123")
      [] k = "BaseClass"  /\ n = "prop2" -> Property("c456")
      [] k = "BaseClass1" /\ n = "prop"  -> Property("c123")
      [] k = "BaseClass2" /\ n = "prop"  -> Property("c456")
      [] k = "MetaBase"   /\ n = "prop"  -> Property("rw")
      [] OTHER -> NoMember

(***************************************************************************)
(* The user's handlers.  A handler is a function of the test suite (or a   *)
(* function like them): it has a __name__, it may call orig (once), it     *)
(* adds delta to what it reads or writes, and a deleter may then assign    *)
(* to the attribute "prop" of the same object.                             *)
(***************************************************************************)
NoAssign == 0 - 1

Handler(name, callsOrig, delta, assign) ==
    [name |-> name, callsOrig |-> callsOrig, delta |-> delta, assign |-> assign]

GetHandlers == {"g_plus1", "g_plus5", "g_prop1", "g_readonly", "g_const"}
SetHandlers == {"s_minus10", "s_plus100", "s_drop", "s_prop2"}
DelHandlers == {"d_assign99", "d_orig", "d_skip", "d_readonly"}
HandlerIds == GetHandlers \cup SetHandlers \cup DelHandlers

HandlerDef(h) ==
    CASE h = "g_plus1"    -> Handler("prop", TRUE, 1, NoAssign)
      [] h = "g_plus5"    -> Handler("prop", TRUE, 5, NoAssign)
      [] h = "g_prop1"    -> Handler("prop1", TRUE, 0, NoAssign)
      [] h = "g_readonly" -> Handler("readonly", TRUE, 1, NoAssign)
      [] h = "g_const"    -> Handler("prop", FALSE, 7, NoAssign)
      [] h = "s_minus10"  -> Handler("prop", TRUE, 0 - 10, NoAssign)
      [] h = "s_plus100"  -> Handler("prop", TRUE, 100, NoAssign)
      [] h = "s_drop"     -> Handler("prop", FALSE, 0, NoAssign)
      [] h = "s_prop2"    -> Handler("prop2", TRUE, 0, NoAssign)
      [] h = "d_assign99" -> Handler("prop", TRUE, 0, 99)
      [] h = "d_orig"     -> Handler("prop", TRUE, 0, NoAssign)
      [] h = "d_skip"     -> Handler("prop", FALSE, 0, NoAssign)
      [] h = "d_readonly" -> Handler("readonly", TRUE, 0, NoAssign)

(***************************************************************************)
(* Descriptor objects.                                                     *)
(***************************************************************************)
\* The descriptor objects, in the order the constructor allocates them.
DescOrder == <<"o1", "o2">>
DescIds == {DescOrder[i] : i \in 1..Len(DescOrder)}

\* A descriptor id that no constructor call has returned yet.
Unmade ==
    [made |-> FALSE, fget |-> None, fset |-> None, fdel |-> None,
     prop_name |-> None, class_type |-> None]

(***************************************************************************)
(* Outcomes of a call: the exception raised ("none" when it returns), the  *)
(* value returned, the store of object values afterwards, and the trace    *)
(* of the calls made.                                                      *)
(***************************************************************************)
Return(v, st, tr) == [exc |-> "none", ret |-> v, val |-> st, trace |-> tr]
Raise(e, st, tr) == [exc |-> e, ret |-> 0, val |-> st, trace |-> tr]

\* Trace events.
HandlerCall(d, op) == [ev |-> "handler", d |-> d, op |-> op, pos |-> 0]
Delegation(d, op, pos) == [ev |-> "delegate", d |-> d, op |-> op, pos |-> pos]
BaseCall(p, op) == [ev |-> "base", d |-> p, op |-> op, pos |-> 0]
NestedAccess(op) == [ev |-> "access", d |-> None, op |-> op, pos |-> 0]

\* The interpreter's recursion limit: a call nested deeper raises
\* RecursionError.
RecursionLimit == 8

(***************************************************************************)
(* oproperty._get_super_attribute                                          *)
(***************************************************************************)
\* The MRO for the object.
ObjectMro(obj) == IF IsType(obj) THEN Mro[obj] ELSE Mro[TypeOf[obj]]

\* A variant that starts from the class of the object, not from the class
\* the descriptor was declared on.
FindClassOfObject(mro, klass) == 1

\* Find this class in the MRO: the loop variable after the first loop, as
\* a position 1..Len(mro) (the last position when the class is not there).
FindClass(mro, klass) ==
    IF \E i \in 1..Len(mro) : mro[i] = klass
    THEN CHOOSE i \in 1..Len(mro) :
            /\ mro[i] = klass
            /\ \A j \in 1..(i - 1) : mro[j] # klass
    ELSE Len(mro)

\* A variant whose second loop starts at the class itself.
SearchFromClass(mro, pos, name) ==
    LET hits == {i \in pos..Len(mro) : cdict[mro[i]][name].kind # "none"}
    IN  IF hits = {} THEN 0
        ELSE CHOOSE i \in hits : \A j \in hits : i <= j

\* Look through classes higher in the MRO for this attribute: the position
\* of the first class after pos whose own dictionary has the name, 0 when
\* there is none.
SearchHigher(mro, pos, name) ==
    LET hits == {i \in (pos + 1)..Len(mro) : cdict[mro[i]][name].kind # "none"}
    IN  IF hits = {} THEN 0
        ELSE CHOOSE i \in hits : \A j \in hits : i <= j

\* The position found (0: None is returned); "unbound" stands for the
\* RuntimeError raised when the class was not decorated.
SuperPos(d, obj, name) ==
    LET mro == ObjectMro(obj)
    IN  SearchHigher(mro, FindClass(mro, descs[d].class_type), name)

\* A variant that raises as soon as no class higher in the MRO has the name.
GetSuperAttributeEager(d, obj, name) ==
    IF descs[d].class_type = None
    THEN [exc |-> "RuntimeError", attr |-> NoMember, pos |-> 0]
    ELSE LET pos == SuperPos(d, obj, name)
         IN  IF pos = 0
             THEN [exc |-> "AttributeError", attr |-> NoMember, pos |-> 0]
             ELSE [exc |-> "none", attr |-> cdict[ObjectMro(obj)[pos]][name],
                   pos |-> pos]

\* A variant that forgets the check of __class_type against None.
GetSuperAttributeUnchecked(d, obj, name) ==
    LET pos == SuperPos(d, obj, name)
    IN  [exc |-> "none",
         attr |-> IF pos = 0 THEN NoMember ELSE cdict[ObjectMro(obj)[pos]][name],
         pos |-> pos]

GetSuperAttribute(d, obj, name) ==
    IF descs[d].class_type = None
    THEN [exc |-> "RuntimeError", attr |-> NoMember, pos |-> 0]
    ELSE LET pos == SuperPos(d, obj, name)
         IN  [exc |-> "none",
              attr |-> IF pos = 0 THEN NoMember
                       ELSE cdict[ObjectMro(obj)[pos]][name],
              pos |-> pos]

(***************************************************************************)
(* The builtin property objects of the test classes (tests.py).            *)
(***************************************************************************)
\* property.__get__(obj): BaseClass.prop returns self.val.
PropertyGet(p, obj, st, tr) ==
    LET t == Append(tr, BaseCall(p, "get"))
    IN  CASE p = "rw"   -> Return(st[obj], st, t)
          [] p = "c123" -> Return(Const123, st, t)
          [] p = "c456" -> Return(Const456, st, t)

\* A variant in which every property accepts a write.
PropertySetAny(p, obj, v, st, tr) ==
    Return(0, [st EXCEPT ![obj] = v], Append(tr, BaseCall(p, "set")))

\* property.__set__(obj, v): BaseClass.prop stores self.val = v; a property
\* without a setter raises AttributeError.
PropertySet(p, obj, v, st, tr) ==
    IF p = "rw"
    THEN Return(0, [st EXCEPT ![obj] = v], Append(tr, BaseCall(p, "set")))
    ELSE Raise("AttributeError", st, tr)

\* property.__delete__(obj): BaseClass.prop stores self.val = 0.
PropertyDelete(p, obj, st, tr) ==
    IF p = "rw"
    THEN Return(0, [st EXCEPT ![obj] = 0], Append(tr, BaseCall(p, "del")))
    ELSE Raise("AttributeError", st, tr)

\* The interpreter's attribute lookup on type(obj): the first class of the
\* MRO of the object's type whose dictionary has the name.
TypeLookup(obj, attr) ==
    LET mro == Mro[TypeOf[obj]]
        hits == {i \in 1..Len(mro) : cdict[mro[i]][attr].kind # "none"}
    IN  IF hits = {} THEN NoMember
        ELSE cdict[mro[CHOOSE i \in hits : \A j \in hits : i <= j]][attr]

(***************************************************************************)
(* oproperty.__get__, __set__, __delete__, with the calls they make: the   *)
(* handler, orig (the lambda over super_attr), and super_attr's accessor.  *)
(* st is the store of object values, tr the trace so far, depth the        *)
(* nesting of descriptor calls.                                            *)
(***************************************************************************)
RECURSIVE oproperty_get(_, _, _, _, _)
RECURSIVE oproperty_set(_, _, _, _, _, _)
RECURSIVE oproperty_delete(_, _, _, _, _)

\* super_attr.__get__(obj)
SuperGet(m, obj, st, tr, depth) ==
    CASE m.kind = "none"      -> Raise("AttributeError", st, tr)
      [] m.kind = "property"  -> PropertyGet(m.id, obj, st, tr)
      [] m.kind = "oproperty" -> oproperty_get(m.id, obj, st, tr, depth + 1)

\* super_attr.__set__(obj, v)
SuperSet(m, obj, v, st, tr, depth) ==
    CASE m.kind = "none"      -> Raise("AttributeError", st, tr)
      [] m.kind = "property"  -> PropertySet(m.id, obj, v, st, tr)
      [] m.kind = "oproperty" -> oproperty_set(m.id, obj, v, st, tr, depth + 1)

\* super_attr.__delete__(obj)
SuperDelete(m, obj, st, tr, depth) ==
    CASE m.kind = "none"      -> Raise("AttributeError", st, tr)
      [] m.kind = "property"  -> PropertyDelete(m.id, obj, st, tr)
      [] m.kind = "oproperty" -> oproperty_delete(m.id, obj, st, tr, depth + 1)

\* A getter handler: return orig() + delta, or delta without calling orig.
CallGetter(h, d, sa, obj, st, tr, depth) ==
    IF ~HandlerDef(h).callsOrig
    THEN Return(HandlerDef(h).delta, st, tr)
    ELSE LET r == SuperGet(sa.attr, obj, st,
                           Append(tr, Delegation(d, "get", sa.pos)), depth)
         IN  IF r.exc # "none" THEN r
             ELSE Return(r.ret + HandlerDef(h).delta, r.val, r.trace)

\* A setter handler: orig(val + delta), or nothing.
CallSetter(h, d, sa, obj, v, st, tr, depth) ==
    IF ~HandlerDef(h).callsOrig
    THEN Return(0, st, tr)
    ELSE SuperSet(sa.attr, obj, v + HandlerDef(h).delta, st,
                  Append(tr, Delegation(d, "set", sa.pos)), depth)

\* setattr(obj, attr, v) by the interpreter: the data descriptor found on
\* the type handles it; without one the value goes to the instance's own
\* dictionary, which no accessor of the model reads.
SetAttr(obj, attr, v, st, tr, depth) ==
    LET m == TypeLookup(obj, attr)
    IN  IF m.kind = "none" THEN Return(0, st, tr)
        ELSE SuperSet(m, obj, v, st, tr, depth)

\* A deleter handler: orig(), then possibly self.prop = assign.
CallDeleter(h, d, sa, obj, st, tr, depth) ==
    LET r == IF HandlerDef(h).callsOrig
             THEN SuperDelete(sa.attr, obj, st,
                              Append(tr, Delegation(d, "del", sa.pos)), depth)
             ELSE Return(0, st, tr)
    IN  IF r.exc # "none" \/ HandlerDef(h).assign = NoAssign THEN r
        ELSE SetAttr(obj, "prop", HandlerDef(h).assign, r.val,
                     Append(r.trace, NestedAccess("set")), depth)

\* Variants that never call the handler.
oproperty_set_direct(d, obj, v, st, tr, depth) ==
    LET sa == GetSuperAttribute(d, obj, descs[d].prop_name)
    IN  IF sa.exc # "none" THEN Raise(sa.exc, st, tr)
        ELSE SuperSet(sa.attr, obj, v, st,
                      Append(tr, Delegation(d, "set", sa.pos)), depth)

oproperty_delete_direct(d, obj, st, tr, depth) ==
    LET sa == GetSuperAttribute(d, obj, descs[d].prop_name)
    IN  IF sa.exc # "none" THEN Raise(sa.exc, st, tr)
        ELSE SuperDelete(sa.attr, obj, st,
                         Append(tr, Delegation(d, "del", sa.pos)), depth)

oproperty_get(d, obj, st, tr, depth) ==
    IF depth > RecursionLimit THEN Raise("RecursionError", st, tr)
    ELSE
    LET sa == GetSuperAttribute(d, obj, descs[d].prop_name)
    IN  IF sa.exc # "none" THEN Raise(sa.exc, st, tr)
        ELSE IF descs[d].fget # None
        THEN CallGetter(descs[d].fget, d, sa, obj, st,
                        Append(tr, HandlerCall(d, "get")), depth)
        ELSE SuperGet(sa.attr, obj, st,
                      Append(tr, Delegation(d, "get", sa.pos)), depth)

oproperty_set(d, obj, v, st, tr, depth) ==
    IF depth > RecursionLimit THEN Raise("RecursionError", st, tr)
    ELSE
    LET sa == GetSuperAttribute(d, obj, descs[d].prop_name)
    IN  IF sa.exc # "none" THEN Raise(sa.exc, st, tr)
        ELSE IF descs[d].fset # None
        THEN CallSetter(descs[d].fset, d, sa, obj, v, st,
                        Append(tr, HandlerCall(d, "set")), depth)
        ELSE SuperSet(sa.attr, obj, v, st,
                      Append(tr, Delegation(d, "set", sa.pos)), depth)

oproperty_delete(d, obj, st, tr, depth) ==
    IF depth > RecursionLimit THEN Raise("RecursionError", st, tr)
    ELSE
    LET sa == GetSuperAttribute(d, obj, descs[d].prop_name)
    IN  IF sa.exc # "none" THEN Raise(sa.exc, st, tr)
        ELSE IF descs[d].fdel # None
        THEN CallDeleter(descs[d].fdel, d, sa, obj, st,
                         Append(tr, HandlerCall(d, "del")), depth)
        ELSE SuperDelete(sa.attr, obj, st,
                         Append(tr, Delegation(d, "del", sa.pos)), depth)

\* obj.attr, obj.attr = v, del obj.attr as the interpreter performs them.
GetAttr(obj, attr, st) ==
    SuperGet(TypeLookup(obj, attr), obj, st, <<>>, 0)

DelAttr(obj, attr, st) ==
    SuperDelete(TypeLookup(obj, attr), obj, st, <<>>, 0)

(***************************************************************************)
(* The state machine.                                                      *)
(***************************************************************************)
\* What the last operation was and how it ended.  changed: whether it
\* changed any object's stored value.
Outcome(op, obj, attr, arg, d, r) ==
    [op |-> op, obj |-> obj, attr |-> attr, arg |-> arg, d |-> d,
     exc |-> r.exc, ret |-> r.ret, trace |-> r.trace,
     changed |-> (r.val # val)]

Idle == Outcome("init", None, None, 0, None, Return(0, val, <<>>))

Done(op) == Outcome(op, None, None, 0, None, Return(0, val, <<>>))

\* A variant that asks the setter for its name before the getter.
InitNameSetterFirst(fget, fset, fdel, name) ==
    IF name # None THEN name
    ELSE IF fset # None THEN HandlerDef(fset).name
    ELSE IF fget # None THEN HandlerDef(fget).name
    ELSE IF fdel # None THEN HandlerDef(fdel).name
    ELSE None

\* The name __init__ settles on; None when it raises.
InitName(fget, fset, fdel, name) ==
    IF name # None THEN name
    ELSE IF fget # None THEN HandlerDef(fget).name
    ELSE IF fset # None THEN HandlerDef(fset).name
    ELSE IF fdel # None THEN HandlerDef(fdel).name
    ELSE None

\* The fields __init__ leaves in a new descriptor.
NewDesc(fget, fset, fdel, name) ==
    [made |-> TRUE, fget |-> fget, fset |-> fset, fdel |-> fdel,
     prop_name |-> InitName(fget, fset, fdel, name), class_type |-> None]

\* How many descriptors the program constructs.
MaxDescs == 1

\* The descriptor the next successful constructor call returns.
NextDesc ==
    DescOrder[CHOOSE i \in 1..Len(DescOrder) :
                /\ ~descs[DescOrder[i]].made
                /\ \A j \in 1..(i - 1) : descs[DescOrder[j]].made]

\* oproperty(fget, fset, fdel, name=name)
Construct(fget, fset, fdel, name) ==
    IF InitName(fget, fset, fdel, name) = None
    THEN /\ last' = Outcome("construct", None, None, <<fget, fset, fdel, name>>,
                            None, Raise("RuntimeError", val, <<>>))
         /\ UNCHANGED <<descs, cdict, val>>
    ELSE /\ Cardinality({d \in DescIds : descs[d].made}) < MaxDescs
         /\ descs' = [descs EXCEPT ![NextDesc] = NewDesc(fget, fset, fdel, name)]
         /\ last' = Outcome("construct", None, None, <<fget, fset, fdel, name>>, NextDesc,
                            Return(0, val, <<>>))
         /\ UNCHANGED <<cdict, val>>

\* oproperty.override_setter(fset, name=name)
OverrideSetter(fset, name) == Construct(None, fset, None, name)

\* oproperty.override_deleter(fdel, name=name)
OverrideDeleter(fdel, name) == Construct(None, None, fdel, name)

\* d.getter(fget)
Getter(d, fget) ==
    /\ descs[d].made
    /\ descs' = [descs EXCEPT ![d].fget = fget]
    /\ last' = Done("getter")
    /\ UNCHANGED <<cdict, val>>

\* d.setter(fset)
Setter(d, fset) ==
    /\ descs[d].made
    /\ descs' = [descs EXCEPT ![d].fset = fset]
    /\ last' = Done("setter")
    /\ UNCHANGED <<cdict, val>>

\* d.deleter(fdel)
Deleter(d, fdel) ==
    /\ descs[d].made
    /\ descs' = [descs EXCEPT ![d].fdel = fdel]
    /\ last' = Done("deleter")
    /\ UNCHANGED <<cdict, val>>

\* A variant that keeps the class a descriptor was first given.
SetClassTypeOnce(d, klass) ==
    IF descs[d].class_type # None THEN descs[d].class_type ELSE klass

\* What set_class_type(klass) leaves in self.__class_type.
SetClassTypeValue(d, klass) == klass

\* d.set_class_type(klass)
SetClassType(d, klass) ==
    /\ descs[d].made
    /\ descs' = [descs EXCEPT ![d].class_type = SetClassTypeValue(d, klass)]
    /\ last' = Outcome("set_class_type", klass, None, 0, d,
                       Return(0, val, <<>>))
    /\ UNCHANGED <<cdict, val>>

\* The descriptors property_overriding(klass) calls set_class_type on.
OverridingTargets(klass) ==
    {d \in DescIds : \E n \in Names : cdict[klass][n] = OProperty(d)}

\* property_overriding(klass)
PropertyOverriding(klass) ==
    /\ descs' = [d \in DescIds |->
            IF d \in OverridingTargets(klass)
            THEN [descs[d] EXCEPT !.class_type = SetClassTypeValue(d, klass)]
            ELSE descs[d]]
    /\ last' = Outcome("property_overriding", klass, None, 0, None,
                       Return(0, val, <<>>))
    /\ UNCHANGED <<cdict, val>>

\* A class body binds a name to a descriptor: klass.__dict__[attr] = d.
Define(klass, attr, d) ==
    /\ descs[d].made
    /\ cdict[klass][attr].kind = "none"
    /\ cdict' = [cdict EXCEPT ![klass][attr] = OProperty(d)]
    /\ last' = Done("define")
    /\ UNCHANGED <<descs, val>>

\* obj.attr
Get(obj, attr) ==
    LET r == GetAttr(obj, attr, val)
    IN  /\ val' = r.val
        /\ last' = Outcome("get", obj, attr, 0, None, r)
        /\ UNCHANGED <<descs, cdict>>

\* obj.attr = v
Set(obj, attr, v) ==
    LET r == SetAttr(obj, attr, v, val, <<>>, 0)
    IN  /\ val' = r.val
        /\ last' = Outcome("set", obj, attr, v, None, r)
        /\ UNCHANGED <<descs, cdict>>

\* del obj.attr
Delete(obj, attr) ==
    LET r == DelAttr(obj, attr, val)
    IN  /\ val' = r.val
        /\ last' = Outcome("del", obj, attr, 0, None, r)
        /\ UNCHANGED <<descs, cdict>>

\* d._get_super_attribute(obj, name), called on its own.  arg records the
\* member returned, ret the position of its class in the MRO.
Resolve(d, obj, name) ==
    LET sa == GetSuperAttribute(d, obj, name)
    IN  /\ descs[d].made
        /\ last' = [op |-> "resolve", obj |-> obj, attr |-> name,
                    arg |-> sa.attr, d |-> d, exc |-> sa.exc, ret |-> sa.pos,
                    trace |-> <<>>, changed |-> FALSE]
        /\ UNCHANGED <<descs, cdict, val>>

(***************************************************************************)
(* The whole life of the descriptors: construction, handler attachment,    *)
(* class bodies, decoration and attribute access, in any order.            *)
(***************************************************************************)
\* The classes whose bodies hold override descriptors, and the name they
\* are stored under.
Owners == {"Derived1", "Derived2", "MyMixin", "Meta"}
StoreNames == {"prop"}

MainOwners == {"Derived1", "Derived2"}
MainGetters == {"g_readonly"}
MainSetters == {"s_drop"}
MainDeleters == {"d_orig"}
MainNames == {None, "prop", "prop2"}
MainObjects == {"d1", "d2"}
MainValues == {5}

BodyDicts == [k \in Classes |-> [n \in Names |-> BodyDict(k, n)]]

Init ==
    /\ descs = [d \in DescIds |-> Unmade]
    /\ cdict = BodyDicts
    /\ val = [o \in Objects |-> BaseInitVal]
    /\ last = [op |-> "init", obj |-> None, attr |-> None, arg |-> 0,
               d |-> None, exc |-> "none", ret |-> 0, trace |-> <<>>,
               changed |-> FALSE]

Next ==
    \/ \E g \in MainGetters \cup {None}, s \in MainSetters \cup {None},
          x \in MainDeleters \cup {None}, n \in MainNames :
            Construct(g, s, x, n)
    \/ \E s \in MainSetters, n \in MainNames : OverrideSetter(s, n)
    \/ \E x \in MainDeleters, n \in MainNames : OverrideDeleter(x, n)
    \/ \E d \in DescIds, g \in MainGetters : Getter(d, g)
    \/ \E d \in DescIds, s \in MainSetters : Setter(d, s)
    \/ \E d \in DescIds, x \in MainDeleters : Deleter(d, x)
    \/ \E k \in MainOwners : PropertyOverriding(k)
    \/ \E k \in MainOwners, n \in StoreNames, d \in DescIds : Define(k, n, d)
    \/ \E o \in MainObjects, n \in StoreNames : Get(o, n)
    \/ \E n \in StoreNames, v \in MainValues : Set("d2", n, v)
    \/ \E n \in StoreNames : Delete("d2", n)

Spec == Init /\ [][Next]_vars

(***************************************************************************)
(* Naming: construction and handler attachment with handlers of different  *)
(* names and explicit names (TestNamings).                                 *)
(***************************************************************************)
NamingGetters == {"g_plus1", "g_prop1"}
NamingSetters == {"s_prop2"}
NamingDeleters == {"d_readonly"}
NamingNames == {None, "prop2"}

NextNaming ==
    \/ \E g \in NamingGetters \cup {None}, s \in NamingSetters \cup {None},
          x \in NamingDeleters \cup {None}, n \in NamingNames :
            Construct(g, s, x, n)
    \/ \E s \in NamingSetters, n \in NamingNames : OverrideSetter(s, n)
    \/ \E x \in NamingDeleters, n \in NamingNames : OverrideDeleter(x, n)
    \/ \E d \in DescIds, g \in NamingGetters : Getter(d, g)
    \/ \E d \in DescIds, s \in NamingSetters : Setter(d, s)
    \/ \E d \in DescIds, x \in NamingDeleters : Deleter(d, x)
    \/ \E k \in MainOwners, n \in StoreNames, d \in DescIds : Define(k, n, d)
    \/ \E k \in MainOwners : PropertyOverriding(k)
    \/ \E o \in MainObjects, n \in StoreNames : Get(o, n)

SpecNaming == Init /\ [][NextNaming]_vars

(***************************************************************************)
(* Two descriptors already constructed, in any class bodies, bound in any  *)
(* way: the constructor calls                                              *)
(*     oproperty(fget)  /  oproperty(name='prop')  /  oproperty(...) with  *)
(* handlers that never call orig                                           *)
(* have run, nothing else has.                                             *)
(***************************************************************************)
Profile(fget, fset, fdel, name) ==
    [fget |-> fget, fset |-> fset, fdel |-> fdel, name |-> name]

MadeFrom(p) == NewDesc(p.fget, p.fset, p.fdel, p.name)

InitWith(profiles) ==
    /\ descs \in [DescIds -> {MadeFrom(p) : p \in profiles}]
    /\ cdict = BodyDicts
    /\ val = [o \in Objects |-> BaseInitVal]
    /\ last = [op |-> "init", obj |-> None, attr |-> None, arg |-> 0,
               d |-> None, exc |-> "none", ret |-> 0, trace |-> <<>>,
               changed |-> FALSE]

\* Resolution on its own, over every class that can hold a descriptor and
\* every object.
ResolveProfiles == {Profile("g_plus1", None, None, None)}
ResolveObjects == {"d1", "d2", "m1", "m2", "C"}
ResolveNames == {"prop", "prop2", "readonly"}

NextResolve ==
    \/ \E d \in DescIds, k \in Owners : SetClassType(d, k)
    \/ \E k \in Owners : PropertyOverriding(k)
    \/ \E k \in Owners, n \in StoreNames, d \in DescIds : Define(k, n, d)
    \/ \E d \in DescIds, o \in ResolveObjects, n \in ResolveNames :
            Resolve(d, o, n)

SpecResolve == InitWith(ResolveProfiles) /\ [][NextResolve]_vars

\* Stacked descriptors and the accesses through them.
ChainOwners == {"Derived1", "Derived2", "MyMixin"}
ChainObjects == {"d2", "m1"}
ChainValues == {5}
ChainProfiles ==
    {Profile("g_plus1", "s_minus10", "d_assign99", None),
     Profile(None, None, None, "prop"),
     Profile("g_const", "s_drop", "d_skip", "readonly")}

NextChain ==
    \/ \E d \in DescIds, k \in ChainOwners : SetClassType(d, k)
    \/ \E k \in ChainOwners : PropertyOverriding(k)
    \/ \E k \in ChainOwners, n \in StoreNames, d \in DescIds : Define(k, n, d)
    \/ \E o \in ChainObjects, n \in StoreNames : Get(o, n)
    \/ \E o \in ChainObjects, n \in StoreNames, v \in ChainValues : Set(o, n, v)
    \/ \E o \in ChainObjects, n \in StoreNames : Delete(o, n)

SpecChain == InitWith(ChainProfiles) /\ [][NextChain]_vars

(***************************************************************************)
(* The classes the test suite defines, after their class statements and    *)
(* the decorator have run:                                                 *)
(*   basic       TestBasicImplementation.DerivedClass (getter and setter)  *)
(*   cm_setter   test_classmethods.Derived1 (override_setter)              *)
(*   cm_deleter  test_classmethods.Derived2 (override_deleter)             *)
(*   stack       test_multiple_overriding (Derived1, Derived2)             *)
(*   stack_swap  the same with the two getters exchanged                   *)
(* The class deriving from BaseClass is "Derived1"; "Derived2" derives     *)
(* from it.                                                                *)
(***************************************************************************)
Scenarios == {"basic", "cm_setter", "cm_deleter", "stack", "stack_swap"}

\* The descriptor of a class body, decorated by property_overriding(klass).
Decorated(desc, klass) == [desc EXCEPT !.class_type = klass]

ScenarioDescs(sc) ==
    CASE sc = "basic" ->
            [d \in DescIds |->
                IF d = "o1"
                THEN Decorated([NewDesc("g_plus1", None, None, None)
                                    EXCEPT !.fset = "s_minus10"], "Derived1")
                ELSE Unmade]
      [] sc = "cm_setter" ->
            [d \in DescIds |->
                IF d = "o1"
                THEN Decorated(NewDesc(None, "s_plus100", None, None), "Derived1")
                ELSE Unmade]
      [] sc = "cm_deleter" ->
            [d \in DescIds |->
                IF d = "o1"
                THEN Decorated(NewDesc(None, None, "d_assign99", None), "Derived1")
                ELSE Unmade]
      [] sc = "stack" ->
            [d \in DescIds |->
                IF d = "o1"
                THEN Decorated(NewDesc("g_plus1", None, None, None), "Derived1")
                ELSE Decorated(NewDesc("g_plus5", None, None, None), "Derived2")]
      [] sc = "stack_swap" ->
            [d \in DescIds |->
                IF d = "o1"
                THEN Decorated(NewDesc("g_plus5", None, None, None), "Derived1")
                ELSE Decorated(NewDesc("g_plus1", None, None, None), "Derived2")]

ScenarioDicts(sc) ==
    [k \in Classes |-> [n \in Names |->
        IF k = "Derived1" /\ n = "prop" THEN OProperty("o1")
        ELSE IF k = "Derived2" /\ n = "prop" /\ sc \in {"stack", "stack_swap"}
        THEN OProperty("o2")
        ELSE BodyDict(k, n)]]

TestObjects == {"b", "d1", "d2"}
TestValues == {444, 555}

InitTests ==
    /\ \E sc \in Scenarios :
        /\ descs = ScenarioDescs(sc)
        /\ cdict = ScenarioDicts(sc)
    /\ val = [o \in Objects |-> BaseInitVal]
    /\ last = [op |-> "init", obj |-> None, attr |-> None, arg |-> 0,
               d |-> None, exc |-> "none", ret |-> 0, trace |-> <<>>,
               changed |-> FALSE]

NextTests ==
    \/ \E o \in TestObjects : Get(o, "prop")
    \/ \E o \in TestObjects, v \in TestValues : Set(o, "prop", v)
    \/ \E o \in TestObjects : Delete(o, "prop")

SpecTests == InitTests /\ [][NextTests]_vars

(***************************************************************************)
(* Properties.                                                             *)
(***************************************************************************)
Accesses == {"get", "set", "del"}

\* The descriptor the interpreter hands the last access to (None when the
\* name resolved to something else).
TopDesc ==
    IF last.op \in Accesses /\ TypeLookup(last.obj, last.attr).kind = "oproperty"
    THEN TypeLookup(last.obj, last.attr).id
    ELSE None

\* C1: a descriptor that was never bound to a class fails every Get, Set
\* and Delete on an instance with RuntimeError, whichever handlers it has,
\* before any handler or ancestor accessor is called (the trace stays
\* empty) and without changing any stored value.
C1_UnboundAccessFails ==
    /\ \A d \in DescIds, obj \in Objects :
        descs[d].made /\ descs[d].class_type = None =>
            /\ oproperty_get(d, obj, val, <<>>, 0) = Raise("RuntimeError", val, <<>>)
            /\ oproperty_delete(d, obj, val, <<>>, 0) = Raise("RuntimeError", val, <<>>)
            /\ \A v \in MainValues :
                oproperty_set(d, obj, v, val, <<>>, 0) = Raise("RuntimeError", val, <<>>)
    /\ TopDesc # None /\ descs[TopDesc].class_type = None =>
        /\ last.exc = "RuntimeError"
        /\ last.trace = <<>>
        /\ ~last.changed

\* An unbound descriptor with a setter handler was written through.
C1_Witness ==
    /\ last.op = "set"
    /\ TopDesc # None
    /\ descs[TopDesc].class_type = None
    /\ descs[TopDesc].fset # None
    /\ last.exc = "RuntimeError"

\* The sequence the claim C2 names: the linearization of the runtime type
\* of the object.
RuntimeTypeMro(obj) == Mro[TypeOf[obj]]

\* What C2 says resolution returns: the member the first class strictly
\* after klass in seq defines under name itself, NoMember without one.
FirstDefinedAfter(seq, klass, name) ==
    LET at == {i \in 1..Len(seq) : seq[i] = klass}
        later == {j \in 1..Len(seq) :
                    /\ \E i \in at : i < j
                    /\ cdict[seq[j]][name].kind # "none"}
    IN  IF later = {} THEN NoMember
        ELSE cdict[seq[CHOOSE j \in later : \A k \in later : j <= k]][name]

\* C2 (as claimed): chain resolution for a bound descriptor returns the
\* member directly defined by the first class strictly after the bound
\* class in the linearization of the runtime type of the object, and
\* nothing when there is no such class.
C2_ResolvesInRuntimeTypeMro ==
    last.op = "resolve" /\ last.exc = "none" =>
        last.arg = FirstDefinedAfter(RuntimeTypeMro(last.obj),
                                     descs[last.d].class_type, last.attr)

\* C2 for objects that are not classes: there the claimed sequence is the
\* one the code walks, and a mixin's descriptor reaches the base of each
\* class it is mixed into.
C2_PlainInstances ==
    /\ last.op = "resolve" /\ last.exc = "none" /\ ~IsType(last.obj) =>
        last.arg = FirstDefinedAfter(RuntimeTypeMro(last.obj),
                                     descs[last.d].class_type, last.attr)
    /\ \A d \in DescIds :
        descs[d].class_type = "MyMixin" =>
            /\ GetSuperAttribute(d, "m1", "prop").attr = Property("c123")
            /\ GetSuperAttribute(d, "m2", "prop").attr = Property("c456")

\* A descriptor bound to the mixin was resolved on an instance of a class
\* the mixin is mixed into.
C2_PlainWitness ==
    /\ last.op = "resolve"
    /\ last.obj = "m2"
    /\ last.attr = "prop"
    /\ descs[last.d].class_type = "MyMixin"
    /\ last.arg = Property("c456")

\* C9 (as claimed): once bound, a descriptor stays bound to the class it
\* was first bound to, whatever bind-to-class calls and annotation steps
\* follow.
C9_BoundOnce ==
    [][\A d \in DescIds :
        descs[d].class_type # None => descs'[d].class_type = descs[d].class_type]_vars

\* The descriptors that are direct members of a class.
DirectMembers(klass) ==
    {d \in DescIds : \E n \in Names : cdict[klass][n] = OProperty(d)}

\* C9 (amended): a bind-to-class call leaves the descriptor bound to the
\* class of that call, replacing an earlier binding; the annotation step
\* binds exactly the descriptors that are direct members of the annotated
\* class to it (again replacing earlier bindings) and no inherited one;
\* nothing else changes a binding; and annotating the same class twice in
\* a row changes nothing the second time.
C9_LastBindWins ==
    [][/\ last'.op = "set_class_type" =>
            /\ descs'[last'.d].class_type = last'.obj
            /\ \A d \in DescIds \ {last'.d} : descs'[d] = descs[d]
       /\ last'.op = "property_overriding" =>
            /\ \A d \in DirectMembers(last'.obj) :
                    descs'[d].class_type = last'.obj
            /\ \A d \in DescIds \ DirectMembers(last'.obj) : descs'[d] = descs[d]
       /\ last'.op \notin {"set_class_type", "property_overriding"} =>
            \A d \in DescIds : descs'[d].class_type = descs[d].class_type
       /\ (/\ last.op = "property_overriding"
           /\ last'.op = "property_overriding"
           /\ last'.obj = last.obj) => descs' = descs
      ]_vars

\* A class was annotated whose direct members contain a descriptor that
\* is also a direct member of another class; it is now bound to the
\* annotated class.
C9_Witness ==
    /\ last.op = "property_overriding"
    /\ \E d \in DirectMembers(last.obj) :
        /\ \E k \in Classes \ {last.obj} : d \in DirectMembers(k)
        /\ descs[d].class_type = last.obj

\* The handlers a constructor call was given, in the order get, set, delete.
Supplied(args) == SelectSeq(<<args[1], args[2], args[3]>>, LAMBDA h : h # None)

\* C7: construction raises RuntimeError exactly when it is given neither a
\* name nor a handler; otherwise the target name is the explicit name when
\* there is one (whatever the handlers are called and whatever name the
\* descriptor is stored under: a descriptor named prop2 stored as prop
\* reads the base's prop2), else the name of the first handler supplied in
\* the order get, set, delete; and getter, setter and deleter never change
\* the target name.
C7_TargetName ==
    [][/\ last'.op = "construct" =>
            /\ (last'.exc = "RuntimeError") <=>
                    (last'.arg[4] = None /\ Supplied(last'.arg) = <<>>)
            /\ last'.exc \in {"none", "RuntimeError"}
            /\ last'.exc = "RuntimeError" => descs' = descs
            /\ last'.exc = "none" =>
                    /\ ~descs[last'.d].made
                    /\ descs'[last'.d].made
                    /\ descs'[last'.d].prop_name =
                        IF last'.arg[4] # None THEN last'.arg[4]
                        ELSE HandlerDef(Head(Supplied(last'.arg))).name
       /\ last'.op \in {"getter", "setter", "deleter"} =>
            \A d \in DescIds : descs'[d].prop_name = descs[d].prop_name
       /\ (/\ last'.op = "get"
           /\ TopDesc' # None
           /\ descs[TopDesc'].prop_name = "prop2"
           /\ descs[TopDesc'].fget = None
           /\ \E i \in 1..Len(ObjectMro(last'.obj)) :
                ObjectMro(last'.obj)[i] = descs[TopDesc'].class_type)
          => last'.exc = "none" /\ last'.ret = Const456
      ]_vars

\* A descriptor was constructed with the explicit name prop2 and a getter
\* called prop1, and its target name is prop2.
C7_Witness ==
    /\ last.op = "construct"
    /\ last.exc = "none"
    /\ last.arg[1] = "g_prop1"
    /\ last.arg[4] = "prop2"
    /\ descs[last.d].prop_name = "prop2"

\* The handler calls and the base accessor calls of a trace, in order.
Calls(tr) ==
    LET ev == SelectSeq(tr, LAMBDA e : e.ev \in {"handler", "base"})
    IN  [i \in 1..Len(ev) |-> <<ev[i].ev, ev[i].d, ev[i].op>>]

\* C3: in the two-level chain of TestBasicImplementation (the base stores
\* a value; the derived class reads orig() + 1 and writes orig(V - 10)),
\* in every state reached by any sequence of accesses a read through the
\* derived instance yields the stored value plus 1, and a write of V
\* leaves the stored value V - 10, so that a read right after it yields
\* V - 9.
C3_TwoLevelChain ==
    descs = ScenarioDescs("basic") =>
        /\ GetAttr("d1", "prop", val).exc = "none"
        /\ GetAttr("d1", "prop", val).ret = val["d1"] + 1
        /\ last.op = "get" /\ last.obj = "d1" =>
            /\ last.exc = "none"
            /\ last.ret = val["d1"] + 1
            /\ ~last.changed
        /\ last.op = "set" /\ last.obj = "d1" =>
            /\ last.exc = "none"
            /\ val["d1"] = last.arg - 10
            /\ GetAttr("d1", "prop", val).ret = last.arg - 9

\* 555 was written through the derived instance and read back as 546.
C3_Witness ==
    /\ descs = ScenarioDescs("basic")
    /\ last.op = "get"
    /\ last.obj = "d1"
    /\ val["d1"] = 545
    /\ last.ret = 546

\* The delta the getter of a descriptor adds.
GetDelta(d) == HandlerDef(descs[d].fget).delta

\* C4: with Derived1 overriding get as orig() + a and Derived2 (a subclass
\* of Derived1) overriding it as orig() + b, a Derived1 instance reads
\* base + a and a Derived2 instance reads (base + a) + b; Derived2's
\* handler is entered first and calls Derived1's, which calls the base
\* getter, each exactly once.
C4_StackedOverrides ==
    (\E sc \in {"stack", "stack_swap"} : descs = ScenarioDescs(sc)) =>
        /\ last.op = "get" /\ last.obj = "d1" =>
            /\ last.exc = "none"
            /\ last.ret = val["d1"] + GetDelta("o1")
            /\ Calls(last.trace) =
                <<<<"handler", "o1", "get">>, <<"base", "rw", "get">>>>
        /\ last.op = "get" /\ last.obj = "d2" =>
            /\ last.exc = "none"
            /\ last.ret = (val["d2"] + GetDelta("o1")) + GetDelta("o2")
            /\ Calls(last.trace) =
                <<<<"handler", "o2", "get">>, <<"handler", "o1", "get">>,
                  <<"base", "rw", "get">>>>

\* A Derived2 instance was read through both levels after a write of 444
\* went through to the base: 444 + 1 + 5.
C4_Witness ==
    /\ descs = ScenarioDescs("stack")
    /\ last.op = "get"
    /\ last.obj = "d2"
    /\ val["d2"] = 444
    /\ last.ret = 450

\* C6: with only a delete handler (override_deleter) that calls orig() and
\* then assigns 99 to the attribute, a delete runs the handler, its orig()
\* runs the base delete on the same object, the assignment falls through
\* to the base setter, and a read afterwards returns 99; with only a set
\* handler (override_setter, orig(V + 100)) reads fall through to the
\* base getter.
C6_SingleAccessorOverrides ==
    /\ descs = ScenarioDescs("cm_deleter") =>
        /\ last.op = "del" /\ last.obj = "d1" =>
            /\ last.exc = "none"
            /\ Calls(last.trace) =
                <<<<"handler", "o1", "del">>, <<"base", "rw", "del">>,
                  <<"base", "rw", "set">>>>
            /\ val["d1"] = 99
            /\ GetAttr("d1", "prop", val).ret = 99
        /\ last.op = "get" /\ last.obj = "d1" =>
            /\ last.exc = "none"
            /\ last.ret = val["d1"]
            /\ Calls(last.trace) = <<<<"base", "rw", "get">>>>
        /\ last.op = "set" /\ last.obj = "d1" =>
            /\ last.exc = "none"
            /\ val["d1"] = last.arg
    /\ descs = ScenarioDescs("cm_setter") =>
        /\ last.op = "get" /\ last.obj = "d1" =>
            /\ last.exc = "none"
            /\ last.ret = val["d1"]
            /\ Calls(last.trace) = <<<<"base", "rw", "get">>>>
        /\ last.op = "set" /\ last.obj = "d1" =>
            /\ last.exc = "none"
            /\ val["d1"] = last.arg + 100
            /\ Calls(last.trace) =
                <<<<"handler", "o1", "set">>, <<"base", "rw", "set">>>>

\* The attribute was deleted through the delete-only descriptor after a
\* write, and the stored value is the 99 the handler assigned.
C6_Witness ==
    /\ descs = ScenarioDescs("cm_deleter")
    /\ last.op = "del"
    /\ last.obj = "d1"
    /\ last.changed
    /\ val["d1"] = 99

\* The member a bound descriptor finds for its own target name on an object.
Found(d, obj) == GetSuperAttribute(d, obj, descs[d].prop_name).attr

\* A member that offers no setter: nothing, or a property without fset.
ReadOnly(m) ==
    \/ m.kind = "none"
    \/ m.kind = "property" /\ m.id \in {"c123", "c456"}

\* The chain above a descriptor offers no setter: what it finds is read
\* only, or is a bound descriptor without a set handler that finds
\* something read only.
OffersNoSetter(d, obj) ==
    \/ ReadOnly(Found(d, obj))
    \/ /\ Found(d, obj).kind = "oproperty"
       /\ descs[Found(d, obj).id].class_type # None
       /\ descs[Found(d, obj).id].fset = None
       /\ ReadOnly(Found(Found(d, obj).id, obj))

\* C5: a write through a bound descriptor that has only a get handler, on
\* an object whose chain offers no setter for the name (no ancestor
\* defines it, or the ancestor's property is read-only), raises
\* AttributeError and leaves every stored value unchanged.
C5_WriteNotSupported ==
    (/\ last.op = "set"
     /\ TopDesc # None
     /\ descs[TopDesc].class_type # None
     /\ descs[TopDesc].fget # None
     /\ descs[TopDesc].fset = None
     /\ descs[TopDesc].fdel = None
     /\ OffersNoSetter(TopDesc, last.obj))
    => /\ last.exc = "AttributeError"
       /\ ~last.changed
       /\ \A i \in 1..Len(last.trace) : last.trace[i].ev = "delegate"

\* A getter-only descriptor whose name no ancestor defines was written.
C5_Witness ==
    /\ last.op = "set"
    /\ TopDesc # None
    /\ descs[TopDesc].class_type = "Derived2"
    /\ descs[TopDesc].fget = "g_readonly"
    /\ descs[TopDesc].fset = None
    /\ descs[TopDesc].fdel = None
    /\ descs[TopDesc].prop_name = "readonly"
    /\ Found(TopDesc, last.obj) = NoMember
    /\ last.exc = "AttributeError"

\* The handler of a descriptor for an access kind (None without one).
HandlerFor(d, op) ==
    CASE op = "get" -> descs[d].fget
      [] op = "set" -> descs[d].fset
      [] op = "del" -> descs[d].fdel

\* C8: when no class beyond the bound class defines the name, resolution
\* returns nothing without raising; an access through a bound descriptor
\* with the matching handler still calls the handler first, raises
\* AttributeError exactly when the handler calls orig, and returns
\* normally when it does not; without a matching handler it raises
\* AttributeError at the direct call, no handler having run.
C8_LazyFailure ==
    (/\ TopDesc # None
     /\ descs[TopDesc].class_type # None
     /\ SuperPos(TopDesc, last.obj, descs[TopDesc].prop_name) = 0)
    => /\ GetSuperAttribute(TopDesc, last.obj, descs[TopDesc].prop_name)
            = [exc |-> "none", attr |-> NoMember, pos |-> 0]
       /\ ~last.changed
       /\ HandlerFor(TopDesc, last.op) # None =>
            /\ last.trace # <<>>
            /\ last.trace[1] = HandlerCall(TopDesc, last.op)
            /\ HandlerDef(HandlerFor(TopDesc, last.op)).callsOrig =>
                    /\ last.exc = "AttributeError"
                    /\ last.trace = <<HandlerCall(TopDesc, last.op),
                                      Delegation(TopDesc, last.op, 0)>>
            /\ ~HandlerDef(HandlerFor(TopDesc, last.op)).callsOrig =>
                    /\ last.exc = "none"
                    /\ last.trace = <<HandlerCall(TopDesc, last.op)>>
       /\ HandlerFor(TopDesc, last.op) = None =>
            /\ last.exc = "AttributeError"
            /\ last.trace = <<Delegation(TopDesc, last.op, 0)>>

\* A getter that calls orig ran although nothing was found, and the
\* access failed at that call.
C8_Witness ==
    /\ last.op = "get"
    /\ TopDesc # None
    /\ descs[TopDesc].class_type # None
    /\ descs[TopDesc].fget = "g_readonly"
    /\ descs[TopDesc].prop_name = "readonly"
    /\ last.trace = <<HandlerCall(TopDesc, "get"), Delegation(TopDesc, "get", 0)>>
    /\ last.exc = "AttributeError"

\* Every descriptor that is a direct member of a class in the MRO of the
\* object is bound to that class and is a direct member of no other class.
MembersBoundWherePlaced(obj) ==
    \A i \in 1..Len(ObjectMro(obj)) :
        \A d \in DirectMembers(ObjectMro(obj)[i]) :
            /\ descs[d].class_type = ObjectMro(obj)[i]
            /\ \A k \in Classes : d \in DirectMembers(k) => k = ObjectMro(obj)[i]

\* The access an event of the trace belongs to: 0 for the access itself,
\* n for the n-th assignment a handler made while it ran.
AccessOf(tr, i) == Cardinality({j \in 1..i : tr[j].ev = "access"})

DelegationsOf(tr, a) ==
    {i \in 1..Len(tr) : tr[i].ev = "delegate" /\ AccessOf(tr, i) = a}

\* C10: on an object whose descriptors are each a direct member only of
\* the class they are bound to, with handlers that call orig at most once,
\* a Get, Set or Delete terminates (no RecursionError); every delegation
\* finds nothing or a member at an MRO position strictly after the bound
\* class of the delegating descriptor, and later delegations of the same
\* access find strictly later positions; no handler of a descriptor runs
\* twice in one access; and an access delegates at most as often as the
\* MRO is long.
C10_Terminates ==
    (last.op \in Accesses /\ MembersBoundWherePlaced(last.obj))
    => /\ last.exc # "RecursionError"
       /\ \A i \in 1..Len(last.trace) :
            last.trace[i].ev = "delegate" =>
                \/ last.trace[i].pos = 0
                \/ last.trace[i].pos >
                     FindClass(ObjectMro(last.obj),
                               descs[last.trace[i].d].class_type)
       /\ \A i, j \in 1..Len(last.trace) :
            (/\ i < j
             /\ AccessOf(last.trace, i) = AccessOf(last.trace, j)
             /\ last.trace[i].ev = "delegate"
             /\ last.trace[j].ev = "delegate")
            => /\ last.trace[i].pos # 0
               /\ last.trace[j].pos = 0 \/ last.trace[i].pos < last.trace[j].pos
       /\ \A i, j \in 1..Len(last.trace) :
            (/\ i < j
             /\ AccessOf(last.trace, i) = AccessOf(last.trace, j)
             /\ last.trace[i].ev = "handler")
            => last.trace[i] # last.trace[j]
       /\ \A a \in 0..Len(last.trace) :
            Cardinality(DelegationsOf(last.trace, a))
                <= Len(ObjectMro(last.obj))

\* A Delete ran through two stacked descriptors that both have handlers,
\* each placed on and bound to its own class.
C10_Witness ==
    /\ last.op = "del"
    /\ last.obj = "d2"
    /\ MembersBoundWherePlaced("d2")
    /\ cdict["Derived2"]["prop"] = OProperty("o2")
    /\ cdict["Derived1"]["prop"] = OProperty("o1")
    /\ descs["o1"].fdel = "d_assign99"
    /\ descs["o2"].fdel = "d_assign99"
    /\ Cardinality(DelegationsOf(last.trace, 0)) = 2
    /\ last.exc = "none"

=============================================================================
